---- MODULE Spec2Model ----
(***************************************************************************)
(* Model of the training orchestration of img_seg_edge.py: start-up and    *)
(* resume (main, lines 222-310), the epoch loop (lines 312-442),           *)
(* save_checkpoint (lines 489-502), the pretrained-weight transplant       *)
(* (lines 280-310), the loss combination (lines 353-358, 464-468), the     *)
(* edge-aware loss (SmoothEdgeLoss, lines 128-157) and the batches of one  *)
(* epoch (lines 343-377, 447-486).                                         *)
(*                                                                         *)
(* The save directory (resume marker first_run.txt, the rolling checkpoint *)
(* files, the model_best files) outlives the process; everything else is   *)
(* process state and is lost when the process is killed.                   *)
(***************************************************************************)
EXTENDS Integers, Sequences, FiniteSets, TLC

\* ------------------------------------------------------------------ bounds
\* args.nepochs: the configured number of epochs.
NEpochs == 2
\* Validation scores (score_valid) range over 0..MaxScore.
MaxScore == 1
\* The start epochs a run may be configured with (--start_epoch) are 0..MaxStart.
MaxStart == 1
\* The plateau policy's patience: the number of epochs without improvement it
\* tolerates before it reduces the learning rate.
Patience == 0
\* The step policy's step size: the number of epochs between two decays.
StepSize == 1

\* The number of times the program is started against the save directory.
MaxRuns == 2

\* The number of save_checkpoint calls a caller of save_checkpoint alone makes.
MaxSaves == 4

\* The number of entries of the pretrained source.
MaxEntries == 2
\* Sub-losses range over 0..MaxLoss.
MaxLoss == 2

\* np.inf (line 224): greater than every validation score.
Inf == MaxScore + 1
Scores == 0..MaxScore

\* ------------------------------------------------------------- the state
VARIABLES
  \* the save directory
  marker,       \* first_run.txt: "absent" (no file), or its text ("" or str(epoch))
  ckpt,         \* checkpoint_model_epoch_<k>.pth.tar: k -> the file's content
  best,         \* model_best_epoch_<k>.pth.tar: k -> the file's content
  \* configuration fixed by the directory name (save_id) or for the behaviour
  pretrained,   \* args.pretrained
  lr_policy,    \* args.lr_policy
  \* the process
  pc,           \* position of main()
  cfg,          \* this run's args: test_mode, evaluate, start_epoch as configured
  resume,       \* args.resume after first_run
  log,          \* the resume message printed: none | loading | loaded | not_found
  start_epoch,  \* args.start_epoch
  epoch,        \* the loop variable
  executed,     \* the epoch indices whose body this run has entered, in order
  best_epoch,
  lowest_loss,
  model,        \* model.state_dict(), abstracted
  lr,           \* optimizer.param_groups[0]['lr'] as the number of decays applied
  sched,        \* the scheduler's internal state
  total_score,
  to_save,
  \* a caller of save_checkpoint alone: the calls made, and those with to_copy
  calls,
  nbest,
  \* the pretrained transplant alone
  load_external_mod,  \* args.load_external_mod
  check,              \* the source entries, in the order .items() yields them
  target_state,       \* name -> tensor of the target model
  prior_state,        \* target_state before the transplant
  li,                 \* the number of source entries handled
  \* the loss combination alone
  weights,            \* args.wcoarse, wcls, wdepth, wseg, wedge, in hundredths
  sublosses,          \* loss_coarse, loss_cls, loss_depth, loss_seg, loss_smoothedge
  loss,               \* the combined loss, in hundredths
  phase,              \* none | train | val
  \* SmoothEdgeLoss.forward alone
  depthPred,          \* the predicted depth map, pixel -> depth in halves
  img,                \* the image, pixel -> intensity
  segGt,              \* the segmentation label, pixel -> class id
  terms,              \* smoothX, smoothY, edgeX, edgeY and their sum, once computed
  \* the batches of one epoch alone
  clip_grad_norm,     \* args.clip_grad_norm
  bpc,                \* position in the batch loops of one epoch
  bi,                 \* the index of the current batch in its loader
  grad,               \* the parameters' .grad: none, or a gradient of some norm
  lossgrad,           \* the norm of the gradient of the current batch's loss
  params,             \* the parameters, as the updates the optimizer applied
  backwards,          \* the number of backward passes so far
  steps,              \* the number of optimizer steps so far
  \* the number of starts so far
  runs,
  \* the uninterrupted reference run: what the trainer's state would be had the
  \* run never been interrupted; kept while `comparable` holds, that is while the
  \* directory was started empty and every interruption so far fell between two
  \* epochs and was followed by a resume
  ref,
  comparable,
  \* history of the run, kept to state what it did
  order,        \* the end-of-epoch and scheduler steps of the current epoch, in order
  seen,         \* the scores that an epoch that led to the trainer's state attained
                \* or beat: every score >= the validation score of such an epoch
  hist,         \* k -> the same for the epochs that led to checkpoint file k
  clean,        \* the directory started empty, the first run started at epoch 0, and
                \* every run since was stopped between two epochs and then resumed
  completed     \* while clean: the epochs completed so far, over all runs, in order

fsVars == <<marker, ckpt, best>>
saveVars == <<calls, nbest>>
loadVars == <<load_external_mod, check, target_state, prior_state, li>>
lossVars == <<weights, sublosses, loss, phase>>
edgeVars == <<depthPred, img, segGt, terms>>
batchVars == <<clip_grad_norm, bpc, bi, grad, lossgrad, params, backwards, steps>>
fixedVars == <<pretrained, lr_policy, saveVars, loadVars, lossVars, edgeVars, batchVars>>
procVars == <<pc, cfg, resume, log, start_epoch, epoch, executed, best_epoch,
              lowest_loss, model, lr, sched, total_score, to_save>>
refVars == <<runs, ref, comparable>>
histVars == <<order, seen, hist, clean, completed>>
vars == <<fsVars, fixedVars, procVars, refVars, histVars>>

\* --------------------------------------------------- str(epoch), int(text)
Digits == <<"0", "1", "2", "3", "4", "5", "6", "7", "8", "9">>

RECURSIVE Str(_)
\* str(epoch), line 428: the decimal text of a natural number.
Str(n) == IF n < 10 THEN Digits[n + 1] ELSE Str(n \div 10) \o Digits[(n % 10) + 1]

DigitOf(c) == CHOOSE d \in 0..9 : Digits[d + 1] = c

RECURSIVE ParseInt(_)
\* int(args.resume), line 230: the number a decimal text denotes.
ParseInt(s) == IF Len(s) = 1 THEN DigitOf(s)
               ELSE 10 * ParseInt(SubSeq(s, 1, Len(s) - 1))
                    + DigitOf(SubSeq(s, Len(s), Len(s)))

\* first_run(save_path): the marker's text, '' when there is no marker.
first_run == IF marker = "absent" THEN "" ELSE marker

\* ------------------------------------------------- model, optimizer, files
\* define_init_weights (line 185): no epoch trained, no pretrained weights.
InitModel == [trained |-> <<>>, pre |-> FALSE]

\* A file that torch.save or shutil.copyfile has opened and not finished writing:
\* torch.load raises on it.
Corrupt == [ok |-> FALSE, epoch |-> 0, best_epoch |-> 0, loss |-> 0,
            state_dict |-> InitModel, optimizer |-> 0]

\* Checkpoint recording the score of the epoch in place of the lowest one.
Checkpoint_WrongLoss(e, be, lo, m, opt) ==
  [ok |-> TRUE, epoch |-> e + 1, best_epoch |-> be, loss |-> Inf,
   state_dict |-> m, optimizer |-> opt]

\* Checkpoint recording the epoch it was saved in.
Checkpoint_SameEpoch(e, be, lo, m, opt) ==
  [ok |-> TRUE, epoch |-> e, best_epoch |-> be, loss |-> lo,
   state_dict |-> m, optimizer |-> opt]

\* The record main() hands to save_checkpoint (lines 436-442).
Checkpoint(e, be, lo, m, opt) ==
  [ok |-> TRUE, epoch |-> e + 1, best_epoch |-> be, loss |-> lo,
   state_dict |-> m, optimizer |-> opt]

\* define_scheduler (line 206): a scheduler built on the fresh optimizer.
FreshSched == [best |-> Inf, num_bad_epochs |-> 0, last_epoch |-> 0]

\* scheduler.step(total_score) of the plateau policy (line 422): the learning
\* rate is reduced once the score has not improved for more than Patience
\* epochs.  The result is <<scheduler state, learning rate>>.
PlateauStep(s, l, metric) ==
  IF metric < s.best
    THEN <<[s EXCEPT !.best = metric, !.num_bad_epochs = 0], l>>
    ELSE IF s.num_bad_epochs + 1 > Patience
           THEN <<[s EXCEPT !.num_bad_epochs = 0], l + 1>>
           ELSE <<[s EXCEPT !.num_bad_epochs = s.num_bad_epochs + 1], l>>

\* scheduler.step() of a non-plateau policy (line 319): the learning rate decays
\* every StepSize calls.
UncondStep(s, l) ==
  <<[s EXCEPT !.last_epoch = s.last_epoch + 1],
    IF (s.last_epoch + 1) % StepSize = 0 THEN l + 1 ELSE l>>

\* One pass over train_loader (lines 343-377) with learning rate l: the
\* parameters depend on every learning rate they were trained with.
TrainModel(m, l) == [m EXCEPT !.trained = Append(m.trained, l)]

\* The reference run before its first epoch.
FreshRef == [lr |-> 0, sched |-> FreshSched, best_epoch |-> 0, lowest_loss |-> Inf,
             trained |-> <<>>]

\* -------------------------------------------------------------------- Init
\* A process that is not running: every local at its default.
Idle ==
  /\ pc = "idle"
  /\ cfg = [test_mode |-> FALSE, evaluate |-> FALSE, start_epoch |-> 0]
  /\ resume = ""
  /\ log = "none"
  /\ start_epoch = 0
  /\ epoch = 0
  /\ executed = <<>>
  /\ best_epoch = 0
  /\ lowest_loss = Inf
  /\ model = InitModel
  /\ lr = 0
  /\ sched = FreshSched
  /\ total_score = 0
  /\ to_save = FALSE

EmptyFile == [k \in {} |-> Corrupt]

\* The parts of the state a specification does not use.
NoSaveCaller == calls = 0 /\ nbest = 0
NoTransplant ==
  /\ load_external_mod = FALSE
  /\ check = <<>>
  /\ target_state = <<>>
  /\ prior_state = <<>>
  /\ li = 0
NoLoss ==
  /\ weights = <<>>
  /\ sublosses = <<>>
  /\ loss = 0
  /\ phase = "none"
NoEdge ==
  /\ depthPred = <<>>
  /\ img = <<>>
  /\ segGt = <<>>
  /\ terms = <<>>
\* A parameter's .grad before the first backward pass: None.
NoGrad == [none |-> TRUE, norm |-> 0]
NoBatch ==
  /\ clip_grad_norm = 0
  /\ bpc = "none"
  /\ bi = 0
  /\ grad = NoGrad
  /\ lossgrad = 0
  /\ params = <<>>
  /\ backwards = 0
  /\ steps = 0

\* No history is kept.
NoHistory ==
  /\ order = <<>>
  /\ seen = {}
  /\ hist = EmptyFile
  /\ clean = FALSE
  /\ completed = <<>>

\* An empty save directory, before the first run.
Init ==
  /\ marker = "absent"
  /\ ckpt = EmptyFile
  /\ best = EmptyFile
  /\ pretrained \in BOOLEAN
  /\ lr_policy \in {"plateau", "step"}
  /\ Idle
  /\ NoSaveCaller /\ NoTransplant /\ NoLoss /\ NoEdge /\ NoBatch
  /\ runs = 0
  /\ ref = FreshRef
  /\ comparable = TRUE
  /\ order = <<>>
  /\ seen = {}
  /\ hist = EmptyFile
  /\ clean = TRUE
  /\ completed = <<>>

\* ---------------------------------------------------------------- start-up
\* TryResume without the test-mode condition.
TryResume_IgnoresTestMode(r, tm, ev) == r # "" /\ ~ev

\* Line 229: whether start-up tries to resume.
TryResume(r, tm, ev) == r # "" /\ ~tm /\ ~ev

\* CheckpointFound without the os.path.isfile test.
CheckpointFound_NoIsFile(r) == TRUE

\* Line 230-231: os.path.isfile of the checkpoint the marker names.
CheckpointFound(r) == ParseInt(r) \in DOMAIN ckpt

\* Line 236: torch.load(path) yields the file's record; it raises on a file that
\* is missing or was not written completely (here: a record that is not ok).
Load(k) == IF k \in DOMAIN ckpt THEN ckpt[k] ELSE Corrupt

\* RestoredEpoch taking the epoch the checkpoint was saved in.
RestoredEpoch_SavedIn(rec) == rec.epoch - 1

\* Line 237: the epoch the loop starts at after a resume.
RestoredEpoch(rec) == rec.epoch

\* Lines 223-224: the trainer's fresh-start values.
InitBestEpoch == 0
InitLowest == Inf

\* Lines 222-272: main() from its start to the end of the resume branch.  tm, ev
\* and se are this run's --test_mode, --evaluate and --start_epoch.  When
\* torch.load (line 236) raises nothing catches it: the run ends there.
Start(tm, ev, se) ==
  /\ pc = "idle"
  /\ runs < MaxRuns
  /\ runs' = runs + 1
  /\ LET r == first_run
         try == TryResume(r, tm, ev)
         found == try /\ CheckpointFound(r)
         rec == Load(ParseInt(r))
         loaded == found /\ rec.ok
     IN /\ cfg' = [test_mode |-> tm, evaluate |-> ev, start_epoch |-> se]
        /\ resume' = r
        /\ log' = IF ~try THEN "none"
                  ELSE IF ~found THEN "not_found"
                  ELSE IF loaded THEN "loaded" ELSE "loading"
        /\ pc' = IF found /\ ~loaded THEN "aborted" ELSE "started"
        /\ start_epoch' = IF loaded THEN RestoredEpoch(rec) ELSE se
        /\ lowest_loss' = IF loaded THEN rec.loss ELSE InitLowest
        /\ best_epoch' = IF loaded THEN rec.best_epoch ELSE InitBestEpoch
        /\ model' = IF loaded THEN rec.state_dict ELSE InitModel
        /\ lr' = IF loaded THEN rec.optimizer ELSE 0
        /\ sched' = FreshSched
        /\ comparable' = IF marker = "absent" THEN TRUE
                         ELSE IF loaded THEN comparable ELSE FALSE
        /\ ref' = IF marker # "absent" /\ loaded /\ comparable THEN ref ELSE FreshRef
        /\ seen' = IF loaded THEN hist[ParseInt(r)] ELSE {}
        /\ clean' = IF marker = "absent" THEN se = 0 ELSE clean /\ loaded
        /\ completed' = IF marker # "absent" /\ clean /\ loaded THEN completed ELSE <<>>
  /\ UNCHANGED <<epoch, executed, total_score, to_save>>
  /\ UNCHANGED <<order, hist>>
  /\ UNCHANGED <<fsVars, fixedVars>>

\* Line 281: whether the pretrained weights are transplanted.
LoadsPretrained == pretrained /\ resume = ""

\* Lines 280-313: the pretrained transplant, then the loop variable's first value.
LoadPretrained ==
  /\ pc = "started"
  /\ model' = IF LoadsPretrained THEN [model EXCEPT !.pre = TRUE] ELSE model
  /\ epoch' = start_epoch
  /\ pc' = "loop"
  /\ UNCHANGED <<cfg, resume, log, start_epoch, executed, best_epoch, lowest_loss,
                 lr, sched, total_score, to_save>>
  /\ UNCHANGED <<fsVars, fixedVars, refVars, histVars>>

\* ---------------------------------------------------------- the epoch loop
\* StepsAtStart without the test of the policy.
StepsAtStart_Always(policy) == TRUE

\* Line 318: whether the scheduler is stepped at the start of the epoch.
StepsAtStart(policy) == policy # "plateau"

\* Line 421: whether the scheduler is stepped with the validation score.
StepsAfterValidation(policy) == policy = "plateau"

\* NextEpoch passing over an index.
NextEpoch_Skip(e) == e + 2

\* Line 313: the index range() yields after e.
NextEpoch(e) == e + 1

\* Lines 313-321: the loop enters the body of epoch `epoch`; a non-plateau policy
\* steps the scheduler before any batch.
EpochBegin ==
  /\ pc = "loop"
  /\ epoch < NEpochs
  /\ executed' = Append(executed, epoch)
  /\ IF StepsAtStart(lr_policy)
       THEN /\ order' = <<"scheduler_step">>
            /\ sched' = UncondStep(sched, lr)[1]
            /\ lr' = UncondStep(sched, lr)[2]
            /\ ref' = IF comparable
                        THEN [ref EXCEPT !.sched = UncondStep(ref.sched, ref.lr)[1],
                                         !.lr = UncondStep(ref.sched, ref.lr)[2]]
                        ELSE ref
       ELSE /\ order' = <<>>
            /\ UNCHANGED <<sched, lr, ref>>
  /\ pc' = "train"
  /\ UNCHANGED <<cfg, resume, log, start_epoch, epoch, best_epoch, lowest_loss,
                 model, total_score, to_save, runs, comparable>>
  /\ UNCHANGED <<fsVars, fixedVars, seen, hist, clean, completed>>

\* Line 313: range(args.start_epoch, args.nepochs) is exhausted; main() returns.
Finish ==
  /\ pc = "loop"
  /\ epoch >= NEpochs
  /\ pc' = "done"
  /\ UNCHANGED <<cfg, resume, log, start_epoch, epoch, executed, best_epoch,
                 lowest_loss, model, lr, sched, total_score, to_save>>
  /\ UNCHANGED <<fsVars, fixedVars, refVars, histVars>>

\* Lines 337-400: the training batches of one epoch.
TrainEpoch ==
  /\ pc = "train"
  /\ model' = TrainModel(model, lr)
  /\ ref' = IF comparable THEN [ref EXCEPT !.trained = Append(ref.trained, ref.lr)]
            ELSE ref
  /\ pc' = "validate"
  /\ UNCHANGED <<cfg, resume, log, start_epoch, epoch, executed, best_epoch,
                 lowest_loss, lr, sched, total_score, to_save, runs, comparable>>
  /\ UNCHANGED <<fsVars, fixedVars, histVars>>

\* Lines 403-416: validate() returns the epoch's score.
Validate(score) ==
  /\ pc = "validate"
  /\ total_score' = score
  /\ pc' = "plateau"
  /\ UNCHANGED <<cfg, resume, log, start_epoch, epoch, executed, best_epoch,
                 lowest_loss, model, lr, sched, to_save>>
  /\ UNCHANGED <<fsVars, fixedVars, refVars, histVars>>

\* AdjustLr without the scheduler step.
AdjustLr_Skipped ==
  /\ pc = "plateau"
  /\ pc' = "marker_open"
  /\ UNCHANGED <<cfg, resume, log, start_epoch, epoch, executed, best_epoch,
                 lowest_loss, model, lr, sched, total_score, to_save>>
  /\ UNCHANGED <<fsVars, fixedVars, refVars, histVars>>

\* Lines 420-424: the plateau policy steps the scheduler with the score.
AdjustLr ==
  /\ pc = "plateau"
  /\ IF StepsAfterValidation(lr_policy)
       THEN /\ order' = Append(order, "scheduler_step_score")
            /\ sched' = PlateauStep(sched, lr, total_score)[1]
            /\ lr' = PlateauStep(sched, lr, total_score)[2]
            /\ ref' = IF comparable
                        THEN [ref EXCEPT
                               !.sched = PlateauStep(ref.sched, ref.lr, total_score)[1],
                               !.lr = PlateauStep(ref.sched, ref.lr, total_score)[2]]
                        ELSE ref
       ELSE UNCHANGED <<sched, lr, ref, order>>
  /\ pc' = "marker_open"
  /\ UNCHANGED <<cfg, resume, log, start_epoch, epoch, executed, best_epoch,
                 lowest_loss, model, total_score, to_save, runs, comparable>>
  /\ UNCHANGED <<fsVars, fixedVars, seen, hist, clean, completed>>

\* Line 427: open(first_run.txt, 'w') creates or truncates the marker.
MarkerOpen ==
  /\ pc = "marker_open"
  /\ marker' = ""
  /\ pc' = "marker_write"
  /\ UNCHANGED <<cfg, resume, log, start_epoch, epoch, executed, best_epoch,
                 lowest_loss, model, lr, sched, total_score, to_save>>
  /\ UNCHANGED <<ckpt, best, fixedVars, refVars, histVars>>

\* Line 428: f.write(str(epoch)), and the file is closed.
MarkerWrite ==
  /\ pc = "marker_write"
  /\ marker' = Str(epoch)
  /\ pc' = "best"
  /\ UNCHANGED <<cfg, resume, log, start_epoch, epoch, executed, best_epoch,
                 lowest_loss, model, lr, sched, total_score, to_save>>
  /\ order' = Append(order, "marker")
  /\ UNCHANGED <<ckpt, best, fixedVars, refVars, seen, hist, clean, completed>>

\* IsBest taking a tie with the lowest score as a new best.
IsBest_OrEqual(score, lowest) == score <= lowest

\* Line 432: whether this epoch's score is a new best.
IsBest(score, lowest) == score < lowest

\* Lines 431-435: to_save, best_epoch and lowest_loss.
BestUpdate ==
  /\ pc = "best"
  /\ to_save' = IsBest(total_score, lowest_loss)
  /\ best_epoch' = IF IsBest(total_score, lowest_loss) THEN epoch + 1 ELSE best_epoch
  /\ lowest_loss' = IF IsBest(total_score, lowest_loss) THEN total_score
                    ELSE lowest_loss
  /\ ref' = IF comparable /\ IsBest(total_score, ref.lowest_loss)
              THEN [ref EXCEPT !.best_epoch = epoch + 1, !.lowest_loss = total_score]
              ELSE ref
  /\ pc' = "save"
  /\ UNCHANGED <<cfg, resume, log, start_epoch, epoch, executed, model, lr, sched,
                 total_score, runs, comparable>>
  /\ order' = Append(order, "is_best")
  /\ seen' = seen \cup {x \in Scores : x >= total_score}
  /\ UNCHANGED <<fsVars, fixedVars, hist, clean, completed>>

\* ------------------------------------------------------- save_checkpoint
\* The directory with file k written, and with file k removed.
Put(f, k, v) == [x \in DOMAIN f \cup {k} |-> IF x = k THEN v ELSE f[x]]
Remove(f, k) == [x \in DOMAIN f \ {k} |-> f[x]]

\* SaveName naming the file after the epoch the checkpoint records.
SaveName_Next(e) == e + 1

\* Line 490: the epoch in the name of the checkpoint file save_checkpoint writes.
SaveName(e) == e

\* PrevName skipping one file.
PrevName_OffByOne(e) == e - 2

\* Line 500: the epoch in the name of the checkpoint file save_checkpoint removes.
PrevName(e) == e - 1

\* RemovesOldBest never looking for an earlier best file.
RemovesOldBest_Never(e) == FALSE

\* Line 493: whether an earlier best file is looked for and removed.
RemovesOldBest(e) == e > 0

\* SaveOpen removing the previous epoch's file before it writes the new one.
SaveOpen_RemovesFirst ==
  /\ pc = "save"
  /\ ckpt' = Put(IF epoch > 0 /\ PrevName(epoch) \in DOMAIN ckpt
                   THEN Remove(ckpt, PrevName(epoch)) ELSE ckpt,
                 SaveName(epoch), Corrupt)
  /\ pc' = "save_write"
  /\ UNCHANGED <<cfg, resume, log, start_epoch, epoch, executed, best_epoch,
                 lowest_loss, model, lr, sched, total_score, to_save>>
  /\ UNCHANGED <<marker, best, fixedVars, refVars, histVars>>

\* Line 491: torch.save opens the file for writing ...
SaveOpen ==
  /\ pc = "save"
  /\ ckpt' = Put(ckpt, SaveName(epoch), Corrupt)
  /\ pc' = "save_write"
  /\ UNCHANGED <<cfg, resume, log, start_epoch, epoch, executed, best_epoch,
                 lowest_loss, model, lr, sched, total_score, to_save>>
  /\ UNCHANGED <<marker, best, fixedVars, refVars, histVars>>

\* ... and writes the record of lines 436-442 into it.
SaveWrite ==
  /\ pc = "save_write"
  /\ ckpt' = Put(ckpt, SaveName(epoch),
                 Checkpoint(epoch, best_epoch, lowest_loss, model, lr))
  /\ pc' = IF to_save THEN "best_glob" ELSE "prev"
  /\ UNCHANGED <<cfg, resume, log, start_epoch, epoch, executed, best_epoch,
                 lowest_loss, model, lr, sched, total_score, to_save>>
  /\ order' = Append(order, "save")
  /\ hist' = Put(hist, SaveName(epoch), seen)
  /\ UNCHANGED <<marker, best, fixedVars, refVars, seen, clean, completed>>

\* Lines 493-496: for epoch > 0 the first file glob lists is removed; glob's
\* order is the directory's, so it may be any of the best files.
BestRemove ==
  /\ pc = "best_glob"
  /\ IF RemovesOldBest(epoch) /\ DOMAIN best # {}
       THEN \E k \in DOMAIN best : best' = Remove(best, k)
       ELSE best' = best
  /\ pc' = "best_copy"
  /\ UNCHANGED <<cfg, resume, log, start_epoch, epoch, executed, best_epoch,
                 lowest_loss, model, lr, sched, total_score, to_save>>
  /\ UNCHANGED <<marker, ckpt, fixedVars, refVars, histVars>>

\* Line 497: shutil.copyfile opens the best file for writing ...
BestCopyOpen ==
  /\ pc = "best_copy"
  /\ best' = Put(best, epoch, Corrupt)
  /\ pc' = "best_copy_write"
  /\ UNCHANGED <<cfg, resume, log, start_epoch, epoch, executed, best_epoch,
                 lowest_loss, model, lr, sched, total_score, to_save>>
  /\ UNCHANGED <<marker, ckpt, fixedVars, refVars, histVars>>

\* ... and copies the checkpoint file into it.
BestCopyWrite ==
  /\ pc = "best_copy_write"
  /\ best' = Put(best, epoch, ckpt[SaveName(epoch)])
  /\ pc' = "prev"
  /\ UNCHANGED <<cfg, resume, log, start_epoch, epoch, executed, best_epoch,
                 lowest_loss, model, lr, sched, total_score, to_save>>
  /\ UNCHANGED <<marker, ckpt, fixedVars, refVars, histVars>>

\* Lines 499-502: the previous epoch's checkpoint file is removed if it exists.
PrevRemove ==
  /\ pc = "prev"
  /\ ckpt' = IF epoch > 0 /\ PrevName(epoch) \in DOMAIN ckpt
               THEN Remove(ckpt, PrevName(epoch)) ELSE ckpt
  /\ hist' = IF epoch > 0 /\ PrevName(epoch) \in DOMAIN ckpt
               THEN Remove(hist, PrevName(epoch)) ELSE hist
  /\ completed' = IF clean THEN Append(completed, epoch) ELSE completed
  /\ pc' = "saved"
  /\ UNCHANGED <<cfg, resume, log, start_epoch, epoch, executed, best_epoch,
                 lowest_loss, model, lr, sched, total_score, to_save>>
  /\ UNCHANGED <<marker, best, fixedVars, refVars, order, seen, clean>>

save_checkpoint ==
  SaveOpen \/ SaveWrite \/ BestRemove \/ BestCopyOpen \/ BestCopyWrite \/ PrevRemove

\* Line 313: save_checkpoint has returned; the loop takes the next epoch.
EpochEnd ==
  /\ pc = "saved"
  /\ epoch' = NextEpoch(epoch)
  /\ order' = <<>>
  /\ pc' = "loop"
  /\ UNCHANGED <<cfg, resume, log, start_epoch, executed, best_epoch,
                 lowest_loss, model, lr, sched, total_score, to_save>>
  /\ UNCHANGED <<fsVars, fixedVars, refVars, seen, hist, clean, completed>>

\* ------------------------------------------------------------ interruption
\* Between two epochs: nothing of the current epoch has begun.
AtBoundary == pc \in {"started", "loop", "done", "aborted"}

\* After one epoch's save has completed and before the next epoch's marker is
\* written (a run that has returned, or has not yet begun its first epoch,
\* included).
BetweenEpochs ==
  pc \in {"started", "loop", "train", "validate", "plateau", "marker_open", "saved",
          "done"}

\* The process ends: it is killed at any point, or it has returned or raised.
\* Its locals are lost; the save directory stays as it is.
Crash ==
  /\ pc # "idle"
  /\ pc' = "idle"
  /\ cfg' = [test_mode |-> FALSE, evaluate |-> FALSE, start_epoch |-> 0]
  /\ resume' = ""
  /\ log' = "none"
  /\ start_epoch' = 0
  /\ epoch' = 0
  /\ executed' = <<>>
  /\ best_epoch' = 0
  /\ lowest_loss' = Inf
  /\ model' = InitModel
  /\ lr' = 0
  /\ sched' = FreshSched
  /\ total_score' = 0
  /\ to_save' = FALSE
  /\ comparable' = (comparable /\ AtBoundary)
  /\ ref' = IF comparable /\ AtBoundary THEN ref ELSE FreshRef
  /\ order' = <<>>
  /\ seen' = {}
  /\ clean' = (clean /\ BetweenEpochs)
  /\ completed' = IF clean /\ BetweenEpochs THEN completed ELSE <<>>
  /\ UNCHANGED <<fsVars, fixedVars, runs, hist>>

\* ------------------------------------------------------- the specification
Next ==
  \/ \E tm \in BOOLEAN, ev \in BOOLEAN, se \in 0..MaxStart : Start(tm, ev, se)
  \/ LoadPretrained
  \/ EpochBegin
  \/ Finish
  \/ TrainEpoch
  \/ \E score \in Scores : Validate(score)
  \/ AdjustLr
  \/ MarkerOpen
  \/ MarkerWrite
  \/ BestUpdate
  \/ save_checkpoint
  \/ EpochEnd
  \/ Crash

Spec == Init /\ [][Next]_vars

\* One step of a running process.  The control thread is sequential and every
\* call it makes (a pass over a finite loader, a file operation) returns, so a
\* process that is not killed takes its next step.
Step ==
  \/ LoadPretrained
  \/ EpochBegin
  \/ Finish
  \/ TrainEpoch
  \/ \E score \in Scores : Validate(score)
  \/ AdjustLr
  \/ MarkerOpen
  \/ MarkerWrite
  \/ BestUpdate
  \/ save_checkpoint
  \/ EpochEnd

SpecFair == Spec /\ WF_vars(Step)

\* ------------------------------------------- save_checkpoint called alone
\* A caller that hands save_checkpoint the epochs 0, 1, ... in turn, each with a
\* to_copy of its choice, against a directory that starts empty.
InitSave ==
  /\ marker = "absent"
  /\ ckpt = EmptyFile
  /\ best = EmptyFile
  /\ pretrained = FALSE
  /\ lr_policy = "plateau"
  /\ pc = "caller"
  /\ cfg = [test_mode |-> FALSE, evaluate |-> FALSE, start_epoch |-> 0]
  /\ resume = ""
  /\ log = "none"
  /\ start_epoch = 0
  /\ epoch = 0
  /\ executed = <<>>
  /\ best_epoch = 0
  /\ lowest_loss = Inf
  /\ model = InitModel
  /\ lr = 0
  /\ sched = FreshSched
  /\ total_score = 0
  /\ to_save = FALSE
  /\ NoSaveCaller /\ NoTransplant /\ NoLoss /\ NoEdge /\ NoBatch
  /\ runs = 0
  /\ ref = FreshRef
  /\ comparable = TRUE
  /\ NoHistory

\* save_checkpoint(state, to_copy, epoch) is called with epoch = calls.
SaveCall(to_copy) ==
  /\ pc = "caller"
  /\ calls < MaxSaves
  /\ epoch' = calls
  /\ to_save' = to_copy
  /\ calls' = calls + 1
  /\ nbest' = IF to_copy THEN nbest + 1 ELSE nbest
  /\ pc' = "save"
  /\ UNCHANGED <<cfg, resume, log, start_epoch, executed, best_epoch, lowest_loss,
                 model, lr, sched, total_score>>
  /\ UNCHANGED <<fsVars, pretrained, lr_policy, loadVars, lossVars, edgeVars, batchVars,
                 refVars, histVars>>

\* save_checkpoint returns to the caller.
SaveReturn ==
  /\ pc = "saved"
  /\ pc' = "caller"
  /\ UNCHANGED <<cfg, resume, log, start_epoch, epoch, executed, best_epoch,
                 lowest_loss, model, lr, sched, total_score, to_save>>
  /\ UNCHANGED <<fsVars, fixedVars, refVars, histVars>>

NextSave ==
  \/ \E to_copy \in BOOLEAN : SaveCall(to_copy)
  \/ save_checkpoint
  \/ SaveReturn

SpecSave == InitSave /\ [][NextSave]_vars

\* ------------------------------------------------ the pretrained transplant
\* Tensor shapes, parameter names of the target, and keys of the source.
Shapes == {<<1>>, <<2>>, <<2, 2>>}
TargetNames == {"w", "b"}
SourceNames == {"module.w", "module.b", "module.x", "w"}

\* Line 290: name[7:], the name without the multi-GPU prefix.
MonoName(name) == SubSeq(name, 8, Len(name))

\* Lines 290-291 and 303: the target name a source entry is looked up under.
Key(name) == IF load_external_mod THEN name ELSE MonoName(name)

\* Whether a tensor of shape s can be broadcast to shape t: aligned at the last
\* dimension, each dimension of s is 1 or that of t.
Broadcastable(s, t) ==
  /\ Len(s) <= Len(t)
  /\ \A i \in 0..(Len(s) - 1) : s[Len(s) - i] \in {1, t[Len(t) - i]}

\* Lines 294-295 and 306-307: tensor.copy_(val) raises RuntimeError exactly when
\* val cannot be broadcast to the tensor's shape.
CopyRaises(src, tgt) == ~Broadcastable(src.shape, tgt.shape)

\* Lines 294 and 306: the target tensor after copy_: its shape, the source's content.
Copy(tgt, src) == [shape |-> tgt.shape, val |-> src.val]

\* The sources: up to MaxEntries entries with distinct names; entry i holds the
\* content i, the initialised target holds the content 0.
Sources ==
  UNION {
    {c \in [1..n -> [name : SourceNames, shape : Shapes, val : 1..MaxEntries]] :
       /\ \A i \in 1..n : c[i].val = i
       /\ \A i, j \in 1..n : i # j => c[i].name # c[j].name}
    : n \in 0..MaxEntries}

InitLoad ==
  /\ marker = "absent"
  /\ ckpt = EmptyFile
  /\ best = EmptyFile
  /\ pretrained = TRUE
  /\ lr_policy = "plateau"
  /\ Idle
  /\ NoSaveCaller /\ NoLoss /\ NoEdge /\ NoBatch
  /\ load_external_mod \in BOOLEAN
  /\ check \in Sources
  /\ target_state \in [TargetNames -> [shape : Shapes, val : {0}]]
  /\ prior_state = target_state
  /\ li = 0
  /\ runs = 0
  /\ ref = FreshRef
  /\ comparable = TRUE
  /\ NoHistory

\* Lines 288-296 and 302-308: one turn of the loop over the source's entries.
TransplantEntry ==
  /\ li < Len(check)
  /\ LET e == check[li + 1]
         k == Key(e.name)
     IN target_state' =
          IF k \notin DOMAIN target_state THEN target_state
          ELSE IF CopyRaises(e, target_state[k]) THEN target_state
          ELSE [target_state EXCEPT ![k] = Copy(target_state[k], e)]
  /\ li' = li + 1
  /\ UNCHANGED <<load_external_mod, check, prior_state>>
  /\ UNCHANGED <<fsVars, pretrained, lr_policy, saveVars, lossVars, edgeVars, batchVars,
                 procVars, refVars, histVars>>

NextLoad == TransplantEntry

SpecLoad == InitLoad /\ [][NextLoad]_vars

\* ------------------------------------------------------ the loss combination
\* Lines 96-100: the default weights, in hundredths.
wcoarse == 7
wcls == 7
wdepth == 10
wseg == 500
wedge == 500

\* Line 358: the combined training loss.
TrainLoss(w, l) ==
  w.coarse * l.coarse + w.cls * l.cls + w.depth * l.depth + w.seg * l.seg
    + w.edge * l.edge

\* ValLoss with the edge term of the training loss.
ValLoss_WithEdge(w, l) ==
  w.coarse * l.coarse + w.cls * l.cls + w.depth * l.depth + w.seg * l.seg
    + w.edge * l.edge

\* Line 468: the combined validation loss.
ValLoss(w, l) ==
  w.coarse * l.coarse + w.cls * l.cls + w.depth * l.depth + w.seg * l.seg

InitLoss ==
  /\ marker = "absent"
  /\ ckpt = EmptyFile
  /\ best = EmptyFile
  /\ pretrained = FALSE
  /\ lr_policy = "plateau"
  /\ Idle
  /\ NoSaveCaller /\ NoTransplant /\ NoEdge /\ NoBatch
  /\ weights \in [coarse : {wcoarse, 100}, cls : {wcls}, depth : {wdepth, 0},
                   seg : {wseg}, edge : {wedge, 100}]
  /\ sublosses \in [coarse : 0..MaxLoss, cls : 0..MaxLoss, depth : 0..MaxLoss,
                     seg : 0..MaxLoss, edge : 0..MaxLoss]
  /\ loss = 0
  /\ phase = "none"
  /\ runs = 0
  /\ ref = FreshRef
  /\ comparable = TRUE
  /\ NoHistory

\* Line 358: a training batch combines its five sub-losses.
TrainBatchLoss ==
  /\ phase = "none"
  /\ loss' = TrainLoss(weights, sublosses)
  /\ phase' = "train"
  /\ UNCHANGED <<weights, sublosses>>
  /\ UNCHANGED <<fsVars, pretrained, lr_policy, saveVars, loadVars, edgeVars, batchVars,
                 procVars, refVars, histVars>>

\* Line 468: a validation batch combines its four sub-losses.
ValBatchLoss ==
  /\ phase = "none"
  /\ loss' = ValLoss(weights, sublosses)
  /\ phase' = "val"
  /\ UNCHANGED <<weights, sublosses>>
  /\ UNCHANGED <<fsVars, pretrained, lr_policy, saveVars, loadVars, edgeVars, batchVars,
                 procVars, refVars, histVars>>

NextLoss == TrainBatchLoss \/ ValBatchLoss

SpecLoss == InitLoss /\ [][NextLoss]_vars

\* ------------------------------------------------------ the edge-aware loss
\* SmoothEdgeLoss.forward on one sample of Height x Width pixels with one
\* channel each (the mean over the channel dimension of a single channel is the
\* channel).  Depths and the thresholds alpha and beta are in halves, so that
\* every quantity is an integer or a quotient of integers.
Height == 2
Width == 2
\* Predicted depths range over 0..MaxDepth halves, intensities over 0..MaxImg.
MaxDepth == 2
MaxImg == 1
\* Segmentation class ids of the labels: the two foreground ids and another one.
SegClasses == {1, 5, 7}

\* Lines 131-132: self.alpha = 0.5 and self.beta = 0.5, in halves.
alpha == 1
beta == 1

Pixels == (1..Height) \X (1..Width)
Abs(x) == IF x < 0 THEN 0 - x ELSE x
Max0(x) == IF x < 0 THEN 0 ELSE x

\* Lines 135-136: the label with every class but 5 and 7 set to 0.
Foreground(seg) == [p \in DOMAIN seg |-> IF seg[p] = 5 \/ seg[p] = 7 THEN seg[p] ELSE 0]

\* Lines 138, 141, 146: |t[:, :, :, :-1] - t[:, :, :, 1:]|.
GradX(t) == [p \in (1..Height) \X (1..(Width - 1)) |->
               Abs(t[p] - t[<<p[1], p[2] + 1>>])]
\* Lines 139, 142, 147: |t[:, :, :-1, :] - t[:, :, 1:, :]|.
GradY(t) == [p \in (1..(Height - 1)) \X (1..Width) |->
               Abs(t[p] - t[<<p[1] + 1, p[2]>>])]

\* torch.min and torch.max of a map.
MinOf(g) == CHOOSE m \in {g[p] : p \in DOMAIN g} : \A q \in DOMAIN g : m <= g[q]
MaxOf(g) == CHOOSE m \in {g[p] : p \in DOMAIN g} : \A q \in DOMAIN g : m >= g[q]

\* Lines 143-144, 148-149: (g - min) / (max - min).  The quotient is kept as
\* numerators over a common denominator; when max = min every element is 0 / 0,
\* which is NaN in floating point.
Normalize(g) == [nan |-> MaxOf(g) = MinOf(g),
                 num |-> [p \in DOMAIN g |-> g[p] - MinOf(g)],
                 den |-> MaxOf(g) - MinOf(g)]

RECURSIVE SumOver(_, _)
SumOver(f, S) == IF S = {} THEN 0
                 ELSE LET p == CHOOSE q \in S : TRUE
                      IN f[p] + SumOver(f, S \ {p})

\* A scalar: NaN, or num / den (den counts halves).
NaN == [nan |-> TRUE, num |-> 0, den |-> 1]

\* Lines 152-153 and 157: mean(max(0, grad_depth - alpha) * (1 - grad_img)).
\* A NaN factor makes every product NaN, also where the other factor is 0.
Smooth(gd, gn) ==
  IF gn.nan THEN NaN
  ELSE [nan |-> FALSE,
        num |-> SumOver([p \in DOMAIN gd |-> Max0(gd[p] - alpha) * (gn.den - gn.num[p])],
                        DOMAIN gd),
        den |-> 2 * gn.den * Cardinality(DOMAIN gd)]

\* Lines 154-155 and 157: mean(max(0, beta - grad_depth) * grad_seg).
Edge(gd, gn) ==
  IF gn.nan THEN NaN
  ELSE [nan |-> FALSE,
        num |-> SumOver([p \in DOMAIN gd |-> Max0(beta - gd[p]) * gn.num[p]], DOMAIN gd),
        den |-> 2 * gn.den * Cardinality(DOMAIN gd)]

\* Line 157: the sum of two scalars.
Add(a, b) == IF a.nan \/ b.nan THEN NaN
             ELSE [nan |-> FALSE, num |-> a.num * b.den + b.num * a.den,
                   den |-> a.den * b.den]

\* Lines 134-157: SmoothEdgeLoss.forward.
SmoothEdgeLoss(d, i, s) ==
  LET smoothX == Smooth(GradX(d), Normalize(GradX(i)))
      smoothY == Smooth(GradY(d), Normalize(GradY(i)))
      edgeX == Edge(GradX(d), Normalize(GradX(Foreground(s))))
      edgeY == Edge(GradY(d), Normalize(GradY(Foreground(s))))
  IN [smoothX |-> smoothX, smoothY |-> smoothY, edgeX |-> edgeX, edgeY |-> edgeY,
      loss |-> Add(Add(smoothX, smoothY), Add(edgeX, edgeY))]

InitEdge ==
  /\ marker = "absent"
  /\ ckpt = EmptyFile
  /\ best = EmptyFile
  /\ pretrained = FALSE
  /\ lr_policy = "plateau"
  /\ Idle
  /\ NoSaveCaller /\ NoTransplant /\ NoLoss /\ NoBatch
  /\ depthPred \in [Pixels -> 0..MaxDepth]
  /\ img \in [Pixels -> 0..MaxImg]
  /\ segGt \in [Pixels -> SegClasses]
  /\ terms = <<>>
  /\ runs = 0
  /\ ref = FreshRef
  /\ comparable = TRUE
  /\ NoHistory

\* Line 357: criterion_smoothedge(depth, img, segGt).
EdgeForward ==
  /\ terms = <<>>
  /\ terms' = SmoothEdgeLoss(depthPred, img, segGt)
  /\ UNCHANGED <<depthPred, img, segGt>>
  /\ UNCHANGED <<fsVars, pretrained, lr_policy, saveVars, loadVars, lossVars, batchVars,
                 procVars, refVars, histVars>>

NextEdge == EdgeForward

SpecEdge == InitEdge /\ [][NextEdge]_vars

\* ------------------------------------------------- the batches of one epoch
\* One epoch's pass over train_loader (lines 343-377) and then validate()
\* (lines 447-486), batch by batch.  A gradient is kept as its norm.
\* len(train_loader) and len(valid_loader).
TrainBatches == 2
ValBatches == 2
\* Gradient norms range over 0..MaxGrad, args.clip_grad_norm over 0..MaxClip.
MaxGrad == 2
MaxClip == 1

otherVars == <<fsVars, pretrained, lr_policy, saveVars, loadVars, lossVars, edgeVars,
               procVars, refVars, histVars>>

\* Line 372: nn.utils.clip_grad_norm scales the gradients the parameters hold so
\* that their norm is at most max_norm; parameters without a gradient are skipped.
ClipGradNorm(g, max_norm) ==
  IF g.none THEN g
  ELSE [none |-> FALSE, norm |-> IF g.norm > max_norm THEN max_norm ELSE g.norm]

\* Line 375: optimizer.zero_grad() zeroes the gradients that exist.
ZeroGradOf(g) == IF g.none THEN g ELSE [none |-> FALSE, norm |-> 0]

\* Line 376: loss.backward() adds the loss's gradient to the parameters' .grad.
BackwardOf(g, lg) == [none |-> FALSE, norm |-> (IF g.none THEN 0 ELSE g.norm) + lg]

\* OptimizerStep leaving the parameters as they are.
OptimizerStep_Skipped(p, g) == p

\* Line 377: optimizer.step() updates the parameters with the gradient they hold.
OptimizerStep(p, g) == Append(p, g.norm)

InitBatch ==
  /\ marker = "absent"
  /\ ckpt = EmptyFile
  /\ best = EmptyFile
  /\ pretrained = FALSE
  /\ lr_policy = "plateau"
  /\ Idle
  /\ NoSaveCaller /\ NoTransplant /\ NoLoss /\ NoEdge
  /\ clip_grad_norm \in 0..MaxClip
  /\ bpc = "train"
  /\ bi = 0
  /\ grad = NoGrad
  /\ lossgrad = 0
  /\ params = <<>>
  /\ backwards = 0
  /\ steps = 0
  /\ runs = 0
  /\ ref = FreshRef
  /\ comparable = TRUE
  /\ NoHistory

\* Lines 343-368: the next training batch is taken; forward pass and loss, whose
\* gradient has norm g.
TrainForward(g) ==
  /\ bpc = "train"
  /\ bi < TrainBatches
  /\ lossgrad' = g
  /\ bpc' = "clip"
  /\ UNCHANGED <<clip_grad_norm, bi, grad, params, backwards, steps>>
  /\ UNCHANGED otherVars

\* Lines 371-372: the gradients are clipped if a clip norm is configured.
ClipGradients ==
  /\ bpc = "clip"
  /\ grad' = IF clip_grad_norm # 0 THEN ClipGradNorm(grad, clip_grad_norm) ELSE grad
  /\ bpc' = "zero_grad"
  /\ UNCHANGED <<clip_grad_norm, bi, lossgrad, params, backwards, steps>>
  /\ UNCHANGED otherVars

\* Line 375.
ZeroGrad ==
  /\ bpc = "zero_grad"
  /\ grad' = ZeroGradOf(grad)
  /\ bpc' = "backward"
  /\ UNCHANGED <<clip_grad_norm, bi, lossgrad, params, backwards, steps>>
  /\ UNCHANGED otherVars

\* Line 376.
Backward ==
  /\ bpc = "backward"
  /\ grad' = BackwardOf(grad, lossgrad)
  /\ backwards' = backwards + 1
  /\ bpc' = "step"
  /\ UNCHANGED <<clip_grad_norm, bi, lossgrad, params, steps>>
  /\ UNCHANGED otherVars

\* Lines 377-397: the optimizer step; the loop goes on to the next batch.
OptimStep ==
  /\ bpc = "step"
  /\ params' = OptimizerStep(params, grad)
  /\ steps' = steps + 1
  /\ bi' = bi + 1
  /\ bpc' = "train"
  /\ UNCHANGED <<clip_grad_norm, grad, lossgrad, backwards>>
  /\ UNCHANGED otherVars

\* Lines 399-403: train_loader is exhausted; validate() is called.
TrainDone ==
  /\ bpc = "train"
  /\ bi >= TrainBatches
  /\ bi' = 0
  /\ bpc' = "val"
  /\ UNCHANGED <<clip_grad_norm, grad, lossgrad, params, backwards, steps>>
  /\ UNCHANGED otherVars

\* Lines 456-481: one validation batch: forward pass, loss and metrics under
\* torch.no_grad().
ValForward ==
  /\ bpc = "val"
  /\ bi < ValBatches
  /\ bi' = bi + 1
  /\ UNCHANGED <<clip_grad_norm, bpc, grad, lossgrad, params, backwards, steps>>
  /\ UNCHANGED otherVars

\* Line 486: validate() returns.
ValReturn ==
  /\ bpc = "val"
  /\ bi >= ValBatches
  /\ bpc' = "returned"
  /\ UNCHANGED <<clip_grad_norm, bi, grad, lossgrad, params, backwards, steps>>
  /\ UNCHANGED otherVars

NextBatch ==
  \/ \E g \in 0..MaxGrad : TrainForward(g)
  \/ ClipGradients
  \/ ZeroGrad
  \/ Backward
  \/ OptimStep
  \/ TrainDone
  \/ ValForward
  \/ ValReturn

SpecBatch == InitBatch /\ [][NextBatch]_vars

\* =================================================================== claims
\* What the save directory says at start-up.  At pc = "started" and "aborted"
\* the directory is as start-up found it.
MarkerNames == marker \notin {"absent", ""}
MarkerFileExists == MarkerNames /\ ParseInt(marker) \in DOMAIN ckpt
JustStarted == pc \in {"started", "aborted"}
ResumeAllowed == ~cfg.test_mode /\ ~cfg.evaluate

\* C1 (as stated): after a resume from marker value E whose checkpoint file
\* exists, the first epoch index the loop executes is E.
C1_FirstEpochIsMarker ==
  (log = "loaded" /\ executed # <<>>) => executed[1] = ParseInt(resume)

\* C1 (amended): after a resume from marker value E whose checkpoint file
\* exists, the first epoch index the loop executes is E + 1, the epoch the
\* checkpoint records; when E + 1 reaches the epoch count no epoch is executed.
C1_FirstEpochAfterMarker ==
  log = "loaded" =>
    /\ executed # <<>> => executed[1] = ParseInt(resume) + 1
    /\ ParseInt(resume) + 1 >= NEpochs => executed = <<>>
    /\ (ParseInt(resume) + 1 < NEpochs /\ pc \notin {"started", "loop"})
         => executed # <<>>

C1_Witness ==
  /\ log = "loaded"
  /\ executed # <<>>
  /\ executed[1] = ParseInt(resume) + 1

\* C2: at every reachable state of the save directory at most one model_best
\* file exists.
C2_AtMostOneBest == Cardinality(DOMAIN best) <= 1

\* C3: after N >= 1 save_checkpoint calls for the epochs 0..N-1 into a directory
\* that was empty, exactly one of them with to_copy, the only checkpoint file is
\* that of epoch N-1 and exactly one best file exists, both written completely.
C3_Retention ==
  (pc = "caller" /\ calls >= 1 /\ nbest = 1) =>
    /\ DOMAIN ckpt = {calls - 1}
    /\ Cardinality(DOMAIN best) = 1
    /\ \A k \in DOMAIN ckpt : ckpt[k].ok
    /\ \A k \in DOMAIN best : best[k].ok

C3_Witness ==
  /\ pc = "caller"
  /\ calls = 3
  /\ nbest = 1
  /\ DOMAIN best = {1}
  /\ DOMAIN ckpt = {2}

\* C4: once torch.save has written the checkpoint file of epoch E it holds the
\* epoch, best epoch and lowest score of the record handed to save_checkpoint,
\* and a resume sets start epoch, best_epoch and lowest_loss to the values the
\* file the marker names holds.
C4_RoundTrip ==
  /\ pc \in {"best_glob", "best_copy", "best_copy_write", "prev"} =>
       /\ epoch \in DOMAIN ckpt
       /\ ckpt[epoch].ok
       /\ ckpt[epoch].epoch = epoch + 1
       /\ ckpt[epoch].best_epoch = best_epoch
       /\ ckpt[epoch].loss = lowest_loss
  /\ (pc = "started" /\ log = "loaded") =>
       /\ MarkerFileExists
       /\ start_epoch = ckpt[ParseInt(marker)].epoch
       /\ best_epoch = ckpt[ParseInt(marker)].best_epoch
       /\ lowest_loss = ckpt[ParseInt(marker)].loss

C4_Witness ==
  /\ pc = "started"
  /\ log = "loaded"
  /\ start_epoch = 2
  /\ best_epoch = 1
  /\ lowest_loss = 1

\* C5: while a run that started in an empty directory has only been interrupted
\* between two epochs and resumed, it has the learning rate, model state,
\* best_epoch and lowest_loss of the uninterrupted run.
C5_ResumeEquivalence ==
  (comparable /\ pc \notin {"idle", "aborted"}) =>
    /\ lr = ref.lr
    /\ model.trained = ref.trained
    /\ best_epoch = ref.best_epoch
    /\ lowest_loss = ref.lowest_loss

\* C6: start-up restores from a checkpoint only if the marker names a file that
\* is present and the run is neither evaluate-only nor in test mode; in every
\* other case start epoch, best_epoch and lowest_loss keep their fresh-start
\* values: the configured start epoch, 0 and +infinity.
C6_ResumeOnlyIf ==
  JustStarted =>
    /\ log = "loaded" => (MarkerFileExists /\ ResumeAllowed)
    /\ ~(MarkerFileExists /\ ResumeAllowed) =>
         /\ log # "loaded"
         /\ start_epoch = cfg.start_epoch
         /\ best_epoch = 0
         /\ lowest_loss = Inf

C6_Witness ==
  /\ pc = "started"
  /\ log = "loaded"
  /\ start_epoch # cfg.start_epoch
  /\ lowest_loss # Inf

\* C7 (as stated): when the marker names an epoch whose checkpoint file is
\* absent, start-up does not fail, the condition is logged and training begins
\* at epoch 0 with lowest_loss = +infinity and best_epoch = 0.
C7_DegradesToEpochZero ==
  /\ (JustStarted /\ MarkerNames /\ ~MarkerFileExists /\ ResumeAllowed) =>
       /\ pc = "started"
       /\ log = "not_found"
       /\ start_epoch = 0
       /\ lowest_loss = Inf
       /\ best_epoch = 0
  /\ (log = "not_found" /\ executed # <<>>) => executed[1] = 0

\* C7 (amended): when the marker names an epoch whose checkpoint file is
\* absent, start-up does not fail, the condition is logged and training begins
\* at the configured start epoch with lowest_loss = +infinity and best_epoch = 0.
C7_DegradesToConfiguredStart ==
  /\ (JustStarted /\ MarkerNames /\ ~MarkerFileExists /\ ResumeAllowed) =>
       /\ pc = "started"
       /\ log = "not_found"
       /\ start_epoch = cfg.start_epoch
       /\ lowest_loss = Inf
       /\ best_epoch = 0
  /\ (log = "not_found" /\ executed # <<>>) => executed[1] = cfg.start_epoch

C7_Witness ==
  /\ log = "not_found"
  /\ executed # <<>>
  /\ DOMAIN ckpt # {}

\* C8: when the checkpoint file the marker names exists and reading it fails,
\* the run does not abort: it goes on as a fresh start.
C8_UnreadableDegrades ==
  (JustStarted /\ MarkerFileExists /\ ResumeAllowed /\ ~ckpt[ParseInt(marker)].ok) =>
    /\ pc = "started"
    /\ start_epoch = cfg.start_epoch
    /\ lowest_loss = Inf
    /\ best_epoch = 0

\* The source entries that name target n with n's shape.
Matching(n) ==
  {i \in 1..Len(check) :
     Key(check[i].name) = n /\ check[i].shape = prior_state[n].shape}

\* C9: after the transplant every target parameter that no source entry matches
\* in name and shape has its prior value (entries with an absent name or another
\* shape were skipped), and every other one holds the content of the last
\* matching entry.
C9_PartialLoad ==
  li = Len(check) =>
    \A n \in DOMAIN target_state :
      IF Matching(n) = {}
        THEN target_state[n] = prior_state[n]
        ELSE /\ target_state[n].shape = prior_state[n].shape
             /\ \E i \in Matching(n) :
                  /\ \A j \in Matching(n) : j <= i
                  /\ target_state[n].val = check[i].val

AllOnes == [coarse |-> 1, cls |-> 1, depth |-> 1, seg |-> 1, edge |-> 1]
DefaultWeights == [coarse |-> 7, cls |-> 7, depth |-> 10, seg |-> 500, edge |-> 500]

\* C10: the training loss is the weighted sum of the five sub-losses and the
\* validation loss the same sum without the edge term; with the weights 0.07,
\* 0.07, 0.1, 5, 5 and every sub-loss 1.0 they are 10.24 and 5.24 (the weights
\* and the combined loss are in hundredths).
C10_LossCombination ==
  LET w == weights
      l == sublosses
      four == w.coarse * l.coarse + w.cls * l.cls + w.depth * l.depth + w.seg * l.seg
  IN /\ phase = "train" => loss = four + w.edge * l.edge
     /\ phase = "val" => loss = four
     /\ (phase = "train" /\ w = DefaultWeights /\ l = AllOnes) => loss = 1024
     /\ (phase = "val" /\ w = DefaultWeights /\ l = AllOnes) => loss = 524

C10_Witness ==
  /\ phase = "val"
  /\ weights = DefaultWeights
  /\ sublosses = AllOnes
  /\ loss = 524

\* A scalar that is exactly 0.
IsZero(x) == ~x.nan /\ x.num = 0
ConstantDepth == \A p, q \in Pixels : depthPred[p] = depthPred[q]

\* C11: for every predicted depth map without spatial variation, whatever the
\* image and the segmentation label, smoothX, smoothY, edgeX and edgeY are 0 and
\* so is the loss.
C11_ConstantDepthIsZero ==
  (terms # <<>> /\ ConstantDepth) =>
    /\ IsZero(terms.smoothX) /\ IsZero(terms.smoothY)
    /\ IsZero(terms.edgeX) /\ IsZero(terms.edgeY)
    /\ IsZero(terms.loss)

\* C12: every training batch performs exactly one backward pass and exactly one
\* optimizer step, and validation performs neither: between two training
\* batches both counts equal the number of batches done, and from the start
\* of validation to its return the counts and the parameters stay as the last
\* training batch left them.
C12_StepsOnlyInTraining ==
  /\ bpc \in {"train", "clip", "zero_grad", "backward"} =>
       backwards = bi /\ steps = bi /\ Len(params) = bi
  /\ bpc = "step" => backwards = bi + 1 /\ steps = bi /\ Len(params) = bi
  /\ bpc \in {"val", "returned"} =>
       backwards = TrainBatches /\ steps = TrainBatches /\ Len(params) = TrainBatches

C12_Witness ==
  /\ bpc = "returned"
  /\ bi = ValBatches
  /\ steps = TrainBatches
  /\ Len(params) = TrainBatches

\* C13: when an epoch has completed, the marker holds its index and its
\* checkpoint file holds the record of that epoch, whether or not the epoch's
\* score was a new best; when it was, the best file of the epoch is a copy of it.
C13_SavesEveryEpoch ==
  pc = "saved" =>
    /\ marker = Str(epoch)
    /\ epoch \in DOMAIN ckpt
    /\ ckpt[epoch].ok
    /\ ckpt[epoch].epoch = epoch + 1
    /\ ckpt[epoch].state_dict = model
    /\ to_save => (epoch \in DOMAIN best /\ best[epoch] = ckpt[epoch])

C13_Witness ==
  /\ pc = "saved"
  /\ ~to_save
  /\ epoch = 1
  /\ marker = "1"
  /\ 1 \in DOMAIN ckpt
  /\ 1 \notin DOMAIN best

\* The epoch indices start, start + 1, ..., start + n - 1.
EpochsFrom(start, n) == [i \in 1..n |-> start + i - 1]

\* C14: the epoch loop of a process that is not killed reaches its end; the
\* epochs it executes are start_epoch, start_epoch + 1, ... in increasing order,
\* each once, up to nepochs - 1 when the loop has ended, and none when the
\* start epoch (configured or restored) is at least nepochs.
C14_Terminates ==
  /\ [](pc \in {"loop", "train", "validate", "plateau", "marker_open", "marker_write",
                "best", "save", "save_write", "best_glob", "best_copy",
                "best_copy_write", "prev", "saved", "done"} =>
          /\ executed = EpochsFrom(start_epoch, Len(executed))
          /\ Len(executed) <= Max0(NEpochs - start_epoch)
          /\ pc = "done" => Len(executed) = Max0(NEpochs - start_epoch))
  /\ (pc = "loop" ~> pc \in {"done", "idle"})

C14_Witness ==
  /\ pc = "done"
  /\ log = "loaded"
  /\ start_epoch = 1
  /\ executed = <<1>>

\* The least of a set of scores; +infinity for no score.
MinScore(S) == IF S = {} THEN Inf ELSE CHOOSE m \in S : \A x \in S : m <= x

\* C15: lowest_loss is the least validation score of the epochs that led to the
\* trainer's state (the least score in seen), those before a resume included; at the end of an epoch
\* is_best holds exactly when the epoch's score is strictly below the least
\* score so far (a tie is not a new best), best_epoch and lowest_loss change
\* only when it holds, and lowest_loss never increases.
C15_BestTracking ==
  /\ [](lowest_loss = MinScore(seen))
  /\ [](pc \in {"save", "save_write", "best_glob", "best_copy", "best_copy_write",
                "prev", "saved"} => (to_save <=> best_epoch = epoch + 1))
  /\ [][(pc = "best" /\ pc' = "save") =>
          /\ to_save' <=> total_score < MinScore(seen)
          /\ to_save' => (lowest_loss' = total_score /\ best_epoch' = epoch + 1)
          /\ ~to_save' => UNCHANGED <<best_epoch, lowest_loss>>
          /\ lowest_loss' <= lowest_loss]_vars
  /\ [][(pc # "best" /\ pc # "idle" /\ pc' # "idle") =>
          UNCHANGED <<best_epoch, lowest_loss>>]_vars

\* An epoch after a resume ties with the lowest score of the epochs before it.
C15_Witness ==
  /\ pc = "save"
  /\ log = "loaded"
  /\ ~to_save
  /\ total_score = lowest_loss
  /\ best_epoch = 1
  /\ epoch = 1

\* Whether s is an initial part of t.
IsPrefix(s, t) == Len(s) <= Len(t) /\ s = SubSeq(t, 1, Len(s))
AfterSchedulerStep ==
  {"marker_open", "marker_write", "best", "save", "save_write", "best_glob",
   "best_copy", "best_copy_write", "prev", "saved"}
EndOfEpoch == pc \in {"plateau"} \cup AfterSchedulerStep

\* C16 (as stated): under the plateau policy the end-of-epoch steps happen in
\* the order: is_best decided and best_epoch/lowest_loss updated, marker written,
\* checkpoint persisted, validation score fed to the scheduler.
C16_SchedulerStepLast ==
  (EndOfEpoch /\ lr_policy = "plateau") =>
    /\ IsPrefix(order, <<"is_best", "marker", "save", "scheduler_step_score">>)
    /\ pc = "saved" => Len(order) = 4

\* C16 (amended): under the plateau policy the end-of-epoch steps happen in the
\* order: validation score fed to the scheduler, marker written, is_best
\* decided and best_epoch/lowest_loss updated, checkpoint persisted; the
\* persisted optimizer state is the one after that epoch's scheduler step.
C16_SchedulerStepFirst ==
  (EndOfEpoch /\ lr_policy = "plateau") =>
    /\ IsPrefix(order, <<"scheduler_step_score", "marker", "is_best", "save">>)
    /\ pc = "saved" => Len(order) = 4
    /\ "save" \in {order[i] : i \in 1..Len(order)} =>
         (epoch \in DOMAIN ckpt /\ ckpt[epoch].optimizer = lr)

\* The scheduler step of the epoch reduced the learning rate, and the
\* checkpoint holds the reduced rate.
C16_Witness ==
  /\ pc = "saved"
  /\ lr_policy = "plateau"
  /\ order = <<"scheduler_step_score", "marker", "is_best", "save">>
  /\ lr = 1
  /\ epoch = 1
  /\ executed = <<0, 1>>
  /\ ckpt[1].optimizer = 1

\* The first save_checkpoint call has returned.
FirstSaveDone == calls > 1 \/ (calls = 1 /\ pc \in {"saved", "caller"})

\* C17: in save_checkpoint(epoch) the checkpoint file of epoch - 1 is still
\* there, complete, until the file of epoch has been written; from the return
\* of the first call on, at every point inside or between calls, a completely
\* written checkpoint file exists, and the only checkpoint files are those of
\* the latest two epochs.
C17_RollingOrder ==
  /\ (pc \in {"save", "save_write"} /\ epoch > 0) =>
       (epoch - 1 \in DOMAIN ckpt /\ ckpt[epoch - 1].ok)
  /\ FirstSaveDone => \E k \in DOMAIN ckpt : ckpt[k].ok
  /\ DOMAIN ckpt \subseteq {epoch - 1, epoch}

\* Inside the third call: the new file is open and incomplete, the previous
\* one is complete.
C17_Witness ==
  /\ pc = "save_write"
  /\ epoch = 2
  /\ DOMAIN ckpt = {1, 2}
  /\ ~ckpt[2].ok
  /\ ckpt[1].ok

\* The scheduler steps among the steps of the current epoch.
SchedulerSteps ==
  {i \in 1..Len(order) : order[i] \in {"scheduler_step", "scheduler_step_score"}}

\* C18: a non-plateau policy steps the scheduler once per executed epoch, at the
\* start of the epoch before the training batches, and never with the score; the
\* plateau policy steps it once per executed epoch, after validation with the
\* epoch's score, and never at the start.
C18_OneStepPerEpoch ==
  /\ (lr_policy # "plateau"
        /\ pc \in {"train", "validate", "plateau"} \cup AfterSchedulerStep) =>
       /\ SchedulerSteps = {1}
       /\ order[1] = "scheduler_step"
  /\ (lr_policy = "plateau" /\ pc \in {"train", "validate", "plateau"}) =>
       SchedulerSteps = {}
  /\ (lr_policy = "plateau" /\ pc \in AfterSchedulerStep) =>
       /\ SchedulerSteps = {1}
       /\ order[1] = "scheduler_step_score"

C18_Witness ==
  /\ lr_policy = "step"
  /\ pc = "saved"
  /\ executed = <<0, 1>>
  /\ order = <<"scheduler_step", "marker", "is_best", "save">>

\* C19: at every point at which the process can be interrupted, when the marker
\* holds E the checkpoint file of epoch E exists.
C19_MarkerHasCheckpoint == MarkerNames => MarkerFileExists

\* C20: in a directory that started empty, with the first run started at epoch
\* 0 and every run stopped between two epochs (after one epoch's save and before
\* the next epoch's marker write) and then resumed, the epochs completed over
\* all runs are 0, 1, 2, ... in increasing order, each once, and all of
\* 0..nepochs-1 when the loop has ended.
C20_NoEpochRepeatedOrSkipped ==
  clean =>
    /\ completed = EpochsFrom(0, Len(completed))
    /\ Len(completed) <= NEpochs
    /\ pc = "done" => Len(completed) = NEpochs

\* The second run resumed after epoch 0, which the first run had completed and
\* whose successor it had begun, and has ended.
C20_Witness ==
  /\ clean
  /\ pc = "done"
  /\ runs = 2
  /\ log = "loaded"
  /\ executed = <<1>>
  /\ completed = <<0, 1>>

\* This run found no marker when it started: the save directory was empty.
StartedEmpty == pc # "idle" /\ comparable /\ log = "none" /\ resume = ""

\* The control points from the end of one save up to the next is_best update.
AfterSave ==
  pc \in {"saved", "loop", "train", "validate", "plateau", "marker_open",
          "marker_write", "best", "done"}

\* C21: in a run that started in an empty save directory, after every completed
\* save a best file that exists is the complete record the rolling checkpoint
\* of its epoch held: the lowest score it records is the trainer's lowest_loss,
\* and the epoch k of its name (counted from 0) is the epoch its record was
\* saved in and the one best_epoch names (counted from 1), in the record and in
\* the trainer alike.
C21_BestMatchesState ==
  (StartedEmpty /\ AfterSave) =>
    \A k \in DOMAIN best :
      /\ best[k].ok
      /\ best[k].loss = lowest_loss
      /\ best[k].epoch = k + 1
      /\ best[k].best_epoch = k + 1
      /\ best_epoch = k + 1
      /\ k \in DOMAIN ckpt => best[k] = ckpt[k]

\* Epoch 0 attained the lowest score and epoch 1, just saved, did not improve
\* on it: the best file is still that of epoch 0.
C21_Witness ==
  /\ StartedEmpty
  /\ pc = "saved"
  /\ executed = <<0, 1>>
  /\ ~to_save
  /\ DOMAIN best = {0}
  /\ lowest_loss < Inf
  /\ best[0].loss = lowest_loss

\* A later epoch improved on the first: the best file has been replaced.
C21_WitnessReplaced ==
  /\ StartedEmpty
  /\ pc = "saved"
  /\ executed = <<0, 1>>
  /\ to_save
  /\ DOMAIN best = {1}
  /\ best[1].loss = lowest_loss

\* A run at the first iteration of its loop that found a marker and did not
\* resume from it: the marker's checkpoint file is absent, or test mode is set.
DegradedStart ==
  /\ pc = "loop"
  /\ executed = <<>>
  /\ resume # ""
  /\ ~cfg.evaluate
  /\ log = "not_found" \/ (log = "none" /\ cfg.test_mode)

\* C22: a run that falls back to a fresh start, because the marker's checkpoint
\* file is absent or because test mode is set while a marker exists, begins in
\* the state a run that finds no marker begins in: the configured start epoch
\* (epoch 0 by default), best_epoch 0, lowest_loss +infinity, and a new model
\* that holds the pretrained weights exactly when pretrained loading is
\* configured.
C22_DegradedEqualsFresh ==
  DegradedStart =>
    /\ epoch = cfg.start_epoch
    /\ best_epoch = InitBestEpoch
    /\ lowest_loss = InitLowest
    /\ model = [InitModel EXCEPT !.pre = pretrained]

\* The gradient of the batch just processed, clipped to max_norm.
ClippedLossGrad(max_norm) ==
  ClipGradNorm([none |-> FALSE, norm |-> lossgrad], max_norm).norm

\* C23: with a nonzero clip norm every gradient an optimizer step applies has
\* a norm of at most the clip norm, and the one the step of a training batch
\* applies is that batch's gradient after clipping; with clip norm 0 it is that
\* batch's gradient as it is.
C23_ClippingEffective ==
  /\ clip_grad_norm # 0 =>
       \A i \in 1..Len(params) : params[i] <= clip_grad_norm
  /\ (bpc = "train" /\ bi > 0) =>
       params[Len(params)] = IF clip_grad_norm # 0
                               THEN ClippedLossGrad(clip_grad_norm)
                               ELSE lossgrad

====
